---- MODULE Spec2Model ----
(***************************************************************************)
(* Cycle-level model of the 8086 front end of phire/i8086:                 *)
(*   - BusInterfaceUnit (bus_interface_unit.py) with its BusRegFile        *)
(*     (bus_regfile.py), 8086 variant (is_8088 = False);                   *)
(*   - InstructionLoader (instruction_loader.py).                          *)
(*                                                                         *)
(* A state holds the registers (the signals driven from m.d.sync) together *)
(* with the values the inputs have during the current clock cycle.         *)
(* Combinational signals (m.d.comb) are operators over the state.  One     *)
(* step of a specification is one rising clock edge.                       *)
(*                                                                         *)
(* Amaranth semantics used throughout: of several assignments to the same  *)
(* signal that are active in a cycle the last one in program order wins;   *)
(* a combinational signal nobody assigns holds its reset value 0; an       *)
(* assignment truncates the value to the width of the target signal.       *)
(***************************************************************************)
EXTENDS Integers, Naturals, FiniteSets, Sequences, TLC

(***************************************************************************)
(* Bounds of the model.                                                    *)
(***************************************************************************)
\* number of distinct words the environment may put on i_data
NumData == 2
\* number of distinct values sampled from the unstable c_reg feedback loop
NumLoop == 2
\* the count of ticks the loader has waited for a byte saturates here
MaxStall == 3

(***************************************************************************)
(* Widths.                                                                 *)
(***************************************************************************)
W2 == 4
W3 == 8
W7 == 128
W8 == 256
W16 == 65536
W20 == 1048576

Bit == {0, 1}

Mux(sel, a, b) == IF sel = 1 THEN a ELSE b

(***************************************************************************)
(* bus_regfile.py: BIURegs                                                 *)
(***************************************************************************)
CS == 0
DS == 1
SS == 2
ES == 3
IP == 4
IND == 5
OPR == 6
Queue0 == 7
Queue1 == 8
Queue2 == 9
Queue == 7
None_ == 10

num_regs == 10

\* the selectors i_write, i_b_read are Signal(3): a register number assigned
\* to one of them keeps its low three bits
Sel3(r) == r % W3

\* Python values: a plain int, and a member of the Enum BIURegs.  BIURegs is
\* a plain Enum (not an IntEnum): a member never compares equal to an int.
PyInt(n) == [type |-> "int", value |-> n]
Member(v) == [type |-> "BIURegs", value |-> v]

\* BusRegFile.__init__: get_default, a match statement with the value
\* patterns BIURegs.IP and BIURegs.CS (compared with ==)
get_default(reg) ==
    CASE reg = Member(IP) -> 65520      \* 0xfff0
      [] reg = Member(CS) -> 61440      \* 0xf000
      [] OTHER            -> 52428      \* 0xcccc

\* the reset values of the cells: get_default(i) for i in range(num_regs),
\* called with the int i
ResetRegs == [i \in 0..(num_regs - 1) |-> get_default(PyInt(i))]

\* the cells as the documented reset values have them (IP = 0xfff0,
\* CS = 0xf000), IP moved to the odd address next to it
OddIPRegs == [ResetRegs EXCEPT ![CS] = get_default(Member(CS)),
                               ![IP] = get_default(Member(IP)) + 1]

(***************************************************************************)
(* bus_interface_unit.py: BIUMode and the constants of elaborate           *)
(***************************************************************************)
Idle == "Idle"
QueueFetchStart == "QueueFetchStart"
QueueFetchAddrCalc == "QueueFetchAddrCalc"
QueueFetchIPInc == "QueueFetchIPInc"
QueueFetch == "QueueFetch"

q_max == 6

\* bench(): range(20) cycles to let the queue fill, then range(6) takes
FillCycles == 20
TakeBytes == 6

(***************************************************************************)
(* The test bench memory of bus_interface_unit.py: mem[i] = i, a word read *)
(* returns mem[addr & 0xfe] | mem[(addr & 0xfe) + 1] << 8.                 *)
(***************************************************************************)
addr_trunk(addr) == (addr % W8) - (addr % 2)

MemWord(addr) == addr_trunk(addr) + (addr_trunk(addr) + 1) * W8

\* words a free environment drives onto i_data
DataVals == {MemWord(2 * i) : i \in 0..(NumData - 1)}

\* values the c_reg -> adder_result -> c_reg loop may be sampled at
LoopVals == 0..(NumLoop - 1)

VARIABLES
    \* ---- BusInterfaceUnit registers
    mode, t_state, start_mem,
    q_read_ptr, q_write_ptr, q_empty, q_count, q_odd,
    c_bus_src, o_addressbus, o_addressbus_valid,
    \* ---- BusRegFile: write port selectors (driven from the BIU's sync
    \*      domain), the cells and the registered B read port
    i_write_en, i_write, register_file, o_b_bus,
    \* ---- inputs during the current cycle
    i_qbus_take, i_data,
    \* ---- values sampled from the two combinational loops of elaborate
    \*      (see c_reg below)
    c_reg_loop, q_odd_next,
    \* ---- history (not part of the design)
    take_legal,     \* TRUE while every take so far met o_qbus_valid = 1
    count_at_T4,    \* q_count right after the last T4 tick (0 after reset),
                    \* or -1 once a take has happened since
    data_at_T3,     \* i_data during the last T3, until the fetched word
                    \* has been written to the queue; else -1
    last_fetch_cell,\* the cell the last fetched word was written to, or -1
    env,            \* who drives the inputs: "free", "data" (i_data free,
                    \* no takes, data_at_T3 and last_fetch_cell recorded),
                    \* "bench", or "off"
                    \* (BIU not clocked)
    cycle           \* bench: number of clock edges so far

biuRegs == <<mode, t_state, start_mem, q_read_ptr, q_write_ptr, q_empty,
             q_count, q_odd, c_bus_src, o_addressbus, o_addressbus_valid,
             i_write_en, i_write, register_file, o_b_bus>>
biuIn == <<i_qbus_take, i_data, c_reg_loop, q_odd_next>>
biuHist == <<take_legal, count_at_T4, data_at_T3, last_fetch_cell, env, cycle>>
biuVars == <<biuRegs, biuIn, biuHist>>

(***************************************************************************)
(* Combinational signals of BusInterfaceUnit.elaborate                     *)
(***************************************************************************)
T4 == mode = QueueFetch /\ t_state = 4

o_qbus_valid == IF q_count > 0 THEN 1 ELSE 0

q_inc == IF T4 THEN (2 - q_odd) % W2 ELSE 0

next_mode == IF q_count > (q_max - 1) THEN Idle ELSE QueueFetchAddrCalc

i_b_read ==
    CASE mode = QueueFetchStart    -> Sel3(IP)
      [] mode = QueueFetchAddrCalc -> Sel3(CS)
      [] mode = QueueFetchIPInc    -> Sel3(IP)
      [] OTHER                     -> Sel3(None_)

\* c_reg is combinational.  In QueueFetchAddrCalc it is assigned
\* adder_result[0:16] while adder_result is b_reg + c_reg, and in
\* QueueFetchIPInc it is Mux(q_odd_next, 2, 1) while q_odd_next is c_reg[0]:
\* both are combinational loops without a stable value whenever they are
\* entered (b_reg is nonzero; bit 0 of c_reg is the complement of itself).
\* What a clock edge samples from such a loop is not determined by the
\* design; c_reg_loop and q_odd_next hold the sampled values.
c_reg ==
    CASE mode = QueueFetchStart    -> 0
      [] mode = QueueFetchAddrCalc -> c_reg_loop % W16
      [] mode = QueueFetchIPInc    -> Mux(q_odd_next, 2, 1)
      [] OTHER                     -> 0

b_reg == o_b_bus

adder_result == (b_reg + c_reg) % W16

\* local signal add20 of elaborate; nothing reads it
add20(i_add20) == IF mode = QueueFetchIPInc THEN 1 ELSE i_add20

i_write_data == Mux(c_bus_src, i_data, adder_result % W16)

i_q_read == q_read_ptr

\* BusRegFile.elaborate, q read port (8086): the cell is selected by
\* i_q_read[1:], the byte by i_q_read[0]
q_word == register_file[i_q_read \div 2]

o_qbus == Mux(i_q_read % 2, q_word % W7, q_word \div W8)

(***************************************************************************)
(* Registers after the clock edge                                          *)
(***************************************************************************)
Next_q_read_ptr ==
    IF i_qbus_take = 1
    THEN (IF q_read_ptr = q_max THEN 0 ELSE (q_read_ptr + 1) % W3)
    ELSE q_read_ptr

Next_q_count ==
    IF mode = QueueFetchIPInc
    THEN (q_count + 2) % W3
    ELSE (q_count + q_inc - i_qbus_take) % W3

\* mutant: QueueFetch hands over at T3, one cycle before the bus cycle ends
Mut_mode_leaves_at_T3 ==
    CASE mode = QueueFetchAddrCalc -> QueueFetchIPInc
      [] mode = QueueFetchIPInc    -> QueueFetch
      [] mode = QueueFetch         -> (IF t_state = 3 THEN next_mode ELSE mode)
      [] mode = Idle               -> next_mode
      [] OTHER                     -> mode

Next_mode ==
    CASE mode = QueueFetchAddrCalc -> QueueFetchIPInc
      [] mode = QueueFetchIPInc    -> QueueFetch
      [] mode = QueueFetch         -> (IF t_state = 4 THEN next_mode ELSE mode)
      [] mode = Idle               -> next_mode
      [] OTHER                     -> mode

Next_start_mem ==
    IF start_mem = 1 THEN 0
    ELSE IF mode = QueueFetchAddrCalc THEN 1
    ELSE start_mem

\* mutant: the T-state counter wraps after T3 and never reaches T4
Mut_t_state_wraps_at_T3 ==
    IF t_state = 3 THEN 0
    ELSE IF t_state # 0 THEN (t_state + 1) % W3
    ELSE IF start_mem = 1 THEN 1
    ELSE t_state

Next_t_state ==
    IF t_state = 4 THEN 0
    ELSE IF t_state # 0 THEN (t_state + 1) % W3
    ELSE IF start_mem = 1 THEN 1
    ELSE t_state

Next_o_addressbus == IF start_mem = 1 THEN adder_result ELSE o_addressbus

Next_o_addressbus_valid == IF start_mem = 1 THEN 1 ELSE o_addressbus_valid

Next_q_odd == IF mode = QueueFetchIPInc THEN q_odd_next ELSE q_odd

Next_c_bus_src ==
    CASE mode = QueueFetchIPInc -> 0
      [] T4                     -> 1
      [] OTHER                  -> c_bus_src

Next_i_write_en == IF mode = QueueFetchIPInc \/ T4 THEN 1 ELSE 0

Next_i_write ==
    CASE mode = QueueFetchIPInc -> Sel3(IP)
      [] T4                     -> Sel3(Queue + (q_write_ptr \div 2))
      [] OTHER                  -> Sel3(None_)

Next_q_write_ptr == IF T4 THEN (q_write_ptr + 1) % W2 ELSE q_write_ptr

Next_q_empty == IF T4 THEN 0 ELSE q_empty

\* mutant: the write port decodes only the low two bits of the selector
Mut_write_port_two_bits(cells, en, sel, data) ==
    IF en = 1 THEN [cells EXCEPT ![sel % W2] = data] ELSE cells

\* BusRegFile.elaborate, write port: the cells after the clock edge
write_port(cells, en, sel, data) ==
    IF en = 1 THEN [cells EXCEPT ![sel] = data] ELSE cells

\* BusRegFile.elaborate, b read port: o_b_bus after the clock edge
b_read_port(cells, sel) == cells[sel]

\* the register file inside the BIU
Next_register_file == write_port(register_file, i_write_en, i_write, i_write_data)

Next_o_b_bus == b_read_port(register_file, i_b_read)

\* one rising clock edge of BusInterfaceUnit and its register file
BIUClock ==
    /\ mode' = Next_mode
    /\ t_state' = Next_t_state
    /\ start_mem' = Next_start_mem
    /\ q_read_ptr' = Next_q_read_ptr
    /\ q_write_ptr' = Next_q_write_ptr
    /\ q_empty' = Next_q_empty
    /\ q_count' = Next_q_count
    /\ q_odd' = Next_q_odd
    /\ c_bus_src' = Next_c_bus_src
    /\ o_addressbus' = Next_o_addressbus
    /\ o_addressbus_valid' = Next_o_addressbus_valid
    /\ i_write_en' = Next_i_write_en
    /\ i_write' = Next_i_write
    /\ register_file' = Next_register_file
    /\ o_b_bus' = Next_o_b_bus
    \* samples of the combinational loops during the next cycle
    /\ c_reg_loop' \in (IF mode' = QueueFetchAddrCalc THEN LoopVals ELSE {0})
    /\ q_odd_next' \in (IF mode' = QueueFetchIPInc THEN Bit ELSE {0})

(***************************************************************************)
(* Environment of the BIU and bookkeeping for the properties               *)
(***************************************************************************)
\* bench() of bus_interface_unit.py.  For FillCycles cycles it serves the
\* bus: data is computed from the address seen at T1 and driven onto i_data
\* when t_state = 3 is seen, and held.  Then it takes TakeBytes bytes,
\* asserting i_qbus_take every other cycle, and the simulation ends.
BenchCycles == FillCycles + 2 * TakeBytes

BenchData(c) ==
    IF c < FillCycles /\ t_state' = 3 THEN MemWord(o_addressbus') ELSE i_data

BenchTake(c) ==
    IF c >= FillCycles /\ c < BenchCycles /\ (c - FillCycles) % 2 = 0
    THEN 1 ELSE 0

\* index of the byte the bench reads in this cycle
TakeIndex == (cycle - FillCycles) \div 2

BenchRunning == env = "bench" => cycle < BenchCycles

BIUEnv ==
    /\ env' = env
    /\ cycle' = (IF env = "bench" THEN cycle + 1 ELSE cycle)
    /\ i_qbus_take' \in (CASE env = "bench" -> {BenchTake(cycle')}
                           [] env = "data"  -> {0}
                           [] OTHER         -> Bit)
    /\ i_data' \in (IF env = "bench" THEN {BenchData(cycle')} ELSE DataVals)

\* the cycle in which the register file takes the fetched word: the write
\* enable and the C-bus source registered at T4 are in effect
QueueWrite == i_write_en = 1 /\ c_bus_src = 1

BIUHist ==
    /\ take_legal' = (take_legal /\ (i_qbus_take = 1 => o_qbus_valid = 1))
    /\ count_at_T4' = (IF T4 THEN Next_q_count
                       ELSE IF i_qbus_take = 1 THEN -1
                       ELSE count_at_T4)
    /\ data_at_T3' = (IF env = "data" /\ t_state = 3 THEN i_data
                      ELSE IF QueueWrite THEN -1
                      ELSE data_at_T3)
    /\ last_fetch_cell' = (IF env = "data" /\ QueueWrite THEN i_write
                           ELSE last_fetch_cell)

\* the state after construction: every signal at its reset value
BIUInit(e, cells) ==
    /\ mode = Idle
    /\ t_state = 0
    /\ start_mem = 0
    /\ q_read_ptr = 0
    /\ q_write_ptr = 0
    /\ q_empty = 1
    /\ q_count = 0
    /\ q_odd = 0
    /\ c_bus_src = 0
    /\ o_addressbus = 0
    /\ o_addressbus_valid = 0
    /\ i_write_en = 0
    /\ i_write = 0
    /\ register_file = cells
    /\ o_b_bus = 0
    /\ i_qbus_take \in (IF e = "free" THEN Bit ELSE {0})
    /\ i_data \in (IF e \in {"free", "data"} THEN DataVals ELSE {0})
    /\ c_reg_loop = 0
    /\ q_odd_next = 0
    /\ take_legal = TRUE
    /\ count_at_T4 = 0
    /\ data_at_T3 = -1
    /\ last_fetch_cell = -1
    /\ env = e
    /\ cycle = 0

(***************************************************************************)
(* instruction_loader.py: InstructionLoader                                *)
(***************************************************************************)
WaitFirstByte == "WaitFirstByte"
WaitSecondByte == "WaitSecondByte"
ExecutingMicrocode == "ExecutingMicrocode"
Prefetch == "Prefetch"

VARIABLES
    state, o_first_clock, o_second_clock,
    \* inputs during the current cycle
    i_queue_ready, i_nxt, i_rni, i_no_microcode, i_single_byte, i_reset,
    \* ---- history (not part of the design)
    last,           \* state and inputs of the previous cycle, or NoLast
    pulses,         \* <<p, q>>: the last pulse emitted, "first", "second"
                    \* or "none", and the pulse before it
    clean,          \* TRUE while neither i_reset nor i_no_microcode was
                    \* high on a tick since the last first pulse
    stalled         \* <<a, b>>: consecutive ticks spent waiting in
                    \* WaitFirstByte for a byte, a up to the last tick and
                    \* b up to the tick before it (capped at MaxStall)

loaderRegs == <<state, o_first_clock, o_second_clock>>
loaderIn == <<i_queue_ready, i_nxt, i_rni, i_no_microcode, i_single_byte, i_reset>>
loaderHist == <<last, pulses, clean, stalled>>
loaderVars == <<loaderRegs, loaderIn, loaderHist>>


NoLast == [state |-> "none", queue_ready |-> 0, nxt |-> 0, rni |-> 0,
           no_microcode |-> 0, single_byte |-> 0, reset |-> 0]

Now == [state |-> state, queue_ready |-> i_queue_ready, nxt |-> i_nxt,
        rni |-> i_rni, no_microcode |-> i_no_microcode,
        single_byte |-> i_single_byte, reset |-> i_reset]

\* i_queue_ready | i_single_byte
queue_or_single == i_queue_ready = 1 \/ i_single_byte = 1

\* mutant: i_no_microcode is tested before i_reset
Mut_state_no_microcode_first ==
    IF i_no_microcode = 1 THEN WaitFirstByte
    ELSE IF i_reset = 1 THEN ExecutingMicrocode
    ELSE IF queue_or_single THEN
        (IF state = WaitFirstByte THEN WaitSecondByte
         ELSE IF state = WaitSecondByte \/ state = Prefetch THEN ExecutingMicrocode
         ELSE IF state = ExecutingMicrocode THEN
            (IF i_rni = 1 \/ i_nxt = 1
             THEN Mux(i_rni, WaitSecondByte, Prefetch)
             ELSE state)
         ELSE state)
    ELSE IF state = ExecutingMicrocode THEN
        (IF i_rni = 1 THEN WaitFirstByte ELSE state)
    ELSE IF state = Prefetch THEN
        (IF i_rni = 1 THEN WaitSecondByte ELSE state)
    ELSE state

\* mutant: without a byte, i_nxt moves ExecutingMicrocode to Prefetch
Mut_state_nxt_without_queue ==
    IF i_reset = 1 THEN ExecutingMicrocode
    ELSE IF i_no_microcode = 1 THEN WaitFirstByte
    ELSE IF queue_or_single THEN
        (IF state = WaitFirstByte THEN WaitSecondByte
         ELSE IF state = WaitSecondByte \/ state = Prefetch THEN ExecutingMicrocode
         ELSE IF state = ExecutingMicrocode THEN
            (IF i_rni = 1 \/ i_nxt = 1
             THEN Mux(i_rni, WaitSecondByte, Prefetch)
             ELSE state)
         ELSE state)
    ELSE IF state = ExecutingMicrocode THEN
        (IF i_rni = 1 THEN WaitFirstByte
         ELSE IF i_nxt = 1 THEN Prefetch ELSE state)
    ELSE IF state = Prefetch THEN
        (IF i_rni = 1 THEN WaitSecondByte ELSE state)
    ELSE state

\* mutant: from Prefetch a byte leaves the state where it is
Mut_state_prefetch_stays ==
    IF i_reset = 1 THEN ExecutingMicrocode
    ELSE IF i_no_microcode = 1 THEN WaitFirstByte
    ELSE IF queue_or_single THEN
        (IF state = WaitFirstByte THEN WaitSecondByte
         ELSE IF state = WaitSecondByte THEN ExecutingMicrocode
         ELSE IF state = Prefetch THEN state
         ELSE IF state = ExecutingMicrocode THEN
            (IF i_rni = 1 \/ i_nxt = 1
             THEN Mux(i_rni, WaitSecondByte, Prefetch)
             ELSE state)
         ELSE state)
    ELSE IF state = ExecutingMicrocode THEN
        (IF i_rni = 1 THEN WaitFirstByte ELSE state)
    ELSE IF state = Prefetch THEN
        (IF i_rni = 1 THEN WaitSecondByte ELSE state)
    ELSE state

\* mutant: from WaitSecondByte a byte leaves the state where it is
Mut_state_second_byte_stays ==
    IF i_reset = 1 THEN ExecutingMicrocode
    ELSE IF i_no_microcode = 1 THEN WaitFirstByte
    ELSE IF queue_or_single THEN
        (IF state = WaitFirstByte THEN WaitSecondByte
         ELSE IF state = WaitSecondByte THEN state
         ELSE IF state = Prefetch THEN ExecutingMicrocode
         ELSE IF state = ExecutingMicrocode THEN
            (IF i_rni = 1 \/ i_nxt = 1
             THEN Mux(i_rni, WaitSecondByte, Prefetch)
             ELSE state)
         ELSE state)
    ELSE IF state = ExecutingMicrocode THEN
        (IF i_rni = 1 THEN WaitFirstByte ELSE state)
    ELSE IF state = Prefetch THEN
        (IF i_rni = 1 THEN WaitSecondByte ELSE state)
    ELSE state

\* the state register after the clock edge (the If/Elif chain of elaborate)
Next_state ==
    IF i_reset = 1 THEN ExecutingMicrocode
    ELSE IF i_no_microcode = 1 THEN WaitFirstByte
    ELSE IF queue_or_single THEN
        (IF state = WaitFirstByte THEN WaitSecondByte
         ELSE IF state = WaitSecondByte \/ state = Prefetch THEN ExecutingMicrocode
         ELSE IF state = ExecutingMicrocode THEN
            (IF i_rni = 1 \/ i_nxt = 1
             THEN Mux(i_rni, WaitSecondByte, Prefetch)
             ELSE state)
         ELSE state)
    ELSE IF state = ExecutingMicrocode THEN
        (IF i_rni = 1 THEN WaitFirstByte ELSE state)
    ELSE IF state = Prefetch THEN
        (IF i_rni = 1 THEN WaitSecondByte ELSE state)
    ELSE state

\* mutant: in ExecutingMicrocode only i_rni raises the pulse, i_nxt does not
Mut_first_clock_rni_only ==
    IF i_reset = 1 THEN 0
    ELSE IF i_no_microcode = 1 THEN 0
    ELSE IF queue_or_single THEN
        (IF state = WaitFirstByte THEN 1
         ELSE IF state = WaitSecondByte \/ state = Prefetch THEN 0
         ELSE IF state = ExecutingMicrocode THEN
            (IF i_rni = 1 THEN 1 ELSE 0)
         ELSE 0)
    ELSE 0

\* mutant: in WaitFirstByte the pulse does not wait for a byte
Mut_first_clock_ignores_queue ==
    IF i_reset = 1 THEN 0
    ELSE IF i_no_microcode = 1 THEN 0
    ELSE IF state = WaitFirstByte THEN 1
    ELSE IF queue_or_single /\ state = ExecutingMicrocode THEN
        (IF i_rni = 1 \/ i_nxt = 1 THEN 1 ELSE 0)
    ELSE 0

\* o_first_clock after the clock edge: 0 unless a branch of the chain sets it
Next_o_first_clock ==
    IF i_reset = 1 THEN 0
    ELSE IF i_no_microcode = 1 THEN 0
    ELSE IF queue_or_single THEN
        (IF state = WaitFirstByte THEN 1
         ELSE IF state = WaitSecondByte \/ state = Prefetch THEN 0
         ELSE IF state = ExecutingMicrocode THEN
            (IF i_rni = 1 \/ i_nxt = 1 THEN 1 ELSE 0)
         ELSE 0)
    ELSE 0

\* mutant: a byte taken in Prefetch raises no pulse
Mut_second_clock_not_from_prefetch ==
    IF i_reset = 1 THEN 0
    ELSE IF i_no_microcode = 1 THEN 0
    ELSE IF queue_or_single THEN
        (IF state = WaitFirstByte THEN 0
         ELSE IF state = WaitSecondByte THEN 1
         ELSE 0)
    ELSE 0

\* mutant: a byte raises the second pulse in WaitFirstByte as well
Mut_second_clock_in_first_byte ==
    IF i_reset = 1 THEN 0
    ELSE IF i_no_microcode = 1 THEN 0
    ELSE IF queue_or_single THEN
        (IF state = WaitFirstByte THEN 1
         ELSE IF state = WaitSecondByte \/ state = Prefetch THEN 1
         ELSE 0)
    ELSE 0

\* o_second_clock after the clock edge
Next_o_second_clock ==
    IF i_reset = 1 THEN 0
    ELSE IF i_no_microcode = 1 THEN 0
    ELSE IF queue_or_single THEN
        (IF state = WaitFirstByte THEN 0
         ELSE IF state = WaitSecondByte \/ state = Prefetch THEN 1
         ELSE 0)
    ELSE 0

LoaderClock ==
    /\ state' = Next_state
    /\ o_first_clock' = Next_o_first_clock
    /\ o_second_clock' = Next_o_second_clock

LoaderEnv ==
    /\ i_queue_ready' \in Bit
    /\ i_nxt' \in Bit
    /\ i_rni' \in Bit
    /\ i_no_microcode' \in Bit
    /\ i_single_byte' \in Bit
    /\ i_reset' \in Bit

\* the inputs of a loader that is never reset and always has microcode
LoaderEnvRunning ==
    /\ i_queue_ready' \in Bit
    /\ i_nxt' \in Bit
    /\ i_rni' \in Bit
    /\ i_no_microcode' = 0
    /\ i_single_byte' \in Bit
    /\ i_reset' = 0

\* the loader sits in WaitFirstByte and no byte is offered
Stalling ==
    /\ state = WaitFirstByte
    /\ i_queue_ready = 0 /\ i_single_byte = 0
    /\ i_reset = 0 /\ i_no_microcode = 0

LoaderHist ==
    /\ last' = Now
    /\ pulses' = (IF Next_o_first_clock = 1 THEN <<"first", pulses[1]>>
                  ELSE IF Next_o_second_clock = 1 THEN <<"second", pulses[1]>>
                  ELSE pulses)
    /\ clean' = (IF Next_o_first_clock = 1 THEN TRUE
                 ELSE IF i_reset = 1 \/ i_no_microcode = 1 THEN FALSE
                 ELSE clean)
    /\ stalled' = <<IF Stalling
                    THEN (IF stalled[1] < MaxStall THEN stalled[1] + 1 ELSE stalled[1])
                    ELSE 0,
                    stalled[1]>>

\* the loader after construction, its inputs drawn from ins
LoaderInit(ins) ==
    /\ state = WaitFirstByte
    /\ o_first_clock = 0
    /\ o_second_clock = 0
    /\ i_queue_ready \in ins
    /\ i_nxt \in ins
    /\ i_rni \in ins
    /\ i_no_microcode \in ins
    /\ i_single_byte \in ins
    /\ i_reset \in ins
    /\ last = NoLast
    /\ pulses = <<"none", "none">>
    /\ clean = TRUE
    /\ stalled = <<0, 0>>

(***************************************************************************)
(* bus_regfile.py: a BusRegFile on its own, its ports driven freely        *)
(***************************************************************************)
\* the run of the free-standing register file stops after this many ticks
MaxRegTicks == 2

\* the cells the b read port is documented for
NonQueueRegs == {CS, DS, SS, ES, IP, IND, OPR}

VARIABLES
    rf_register_file, rf_o_b_bus,
    \* inputs during the current cycle
    rf_i_write_en, rf_i_write, rf_i_write_data, rf_i_b_read,
    \* ---- history (not part of the design)
    rf_last,        \* the write port inputs of the previous cycle, or RfNoLast
    rf_ticks        \* clock edges since construction

rfRegs == <<rf_register_file, rf_o_b_bus>>
rfIn == <<rf_i_write_en, rf_i_write, rf_i_write_data, rf_i_b_read>>
rfHist == <<rf_last, rf_ticks>>
rfVars == <<rfRegs, rfIn, rfHist>>

RfNoLast == [write_en |-> 0, write |-> 0, write_data |-> 0]

\* the inputs of this cycle; the idle write port is recorded as zeros
RfNow == [write_en   |-> rf_i_write_en,
          write      |-> IF rf_i_write_en = 1 THEN rf_i_write ELSE 0,
          write_data |-> IF rf_i_write_en = 1 THEN rf_i_write_data ELSE 0]

RegFileClock ==
    /\ rf_register_file' =
           write_port(rf_register_file, rf_i_write_en, rf_i_write, rf_i_write_data)
    /\ rf_o_b_bus' = b_read_port(rf_register_file, rf_i_b_read)

RegFileHist ==
    /\ rf_last' = RfNow
    /\ rf_ticks' = rf_ticks + 1

\* the selectors are Signal(3), i_write_data is Signal(16); after the last
\* tick of the run the inputs are left at 0
RegFileEnv ==
    LET on == rf_ticks' < MaxRegTicks
    IN  /\ rf_i_write_en' \in (IF on THEN Bit ELSE {0})
        /\ rf_i_write' \in (IF on THEN 0..(W3 - 1) ELSE {0})
        /\ rf_i_write_data' \in (IF on THEN DataVals ELSE {0})
        /\ rf_i_b_read' \in (IF on THEN 0..(W3 - 1) ELSE {0})

\* the register file after construction; on = FALSE holds its inputs at 0
RegFileInit(on) ==
    /\ rf_register_file = ResetRegs
    /\ rf_o_b_bus = 0
    /\ rf_i_write_en \in (IF on THEN Bit ELSE {0})
    /\ rf_i_write \in (IF on THEN 0..(W3 - 1) ELSE {0})
    /\ rf_i_write_data \in (IF on THEN DataVals ELSE {0})
    /\ rf_i_b_read \in (IF on THEN 0..(W3 - 1) ELSE {0})
    /\ rf_last = RfNoLast
    /\ rf_ticks = 0

(***************************************************************************)
(* Python and Amaranth values used by the decode PLAs.                     *)
(* A Python string is a sequence of one-character strings.  An integer     *)
(* that is used bit by bit is a function from the bit positions 0..w-1 to  *)
(* Bit (the 38-bit column vector does not fit a machine integer).          *)
(***************************************************************************)
\* reversed(s)
Reversed(s) == [k \in 1..Len(s) |-> s[Len(s) + 1 - k]]

\* ["1" if c == ch else "0" for c in s]
MarkChars(s, ch) == [k \in 1..Len(s) |-> IF s[k] = ch THEN "1" ELSE "0"]

\* int(s, 2): the last character is bit 0
IntBase2(s) == [k \in 0..(Len(s) - 1) |-> IF s[Len(s) - k] = "1" THEN 1 ELSE 0]

\* the bits of a w-bit signal that holds n
SignalBits(n, w) == [k \in 0..(w - 1) |-> (n \div (2 ^ k)) % 2]

BitAt(v, k) == IF k \in DOMAIN v THEN v[k] ELSE 0

\* a & b, the narrower operand zero-extended
And(a, b) == [k \in (DOMAIN a) \union (DOMAIN b) |-> BitAt(a, k) * BitAt(b, k)]

\* ~a, within the width of a
Not(a) == [k \in DOMAIN a |-> 1 - a[k]]

\* a.any()
any(a) == IF \E k \in DOMAIN a : a[k] = 1 THEN 1 ELSE 0

(***************************************************************************)
(* group_decode.py: GroupDecode                                            *)
(***************************************************************************)
\* widths of i, o_rows and o_columns
GroupInputBits == 9
NumRows == 15
NumColumns == 38

\* number of pattern tables the decoder is checked with
NumTables == 2

\* The tables microcode_dump.group_input and microcode_dump.group_output are
\* not part of the sources at hand.  Their documented shape: 38 input
\* patterns of 9 characters 0, 1 or -, and 15 output patterns of 38
\* characters 0 or 1.  GroupInputTable(t) and GroupOutputTable(t) are tables
\* of that shape; the pattern of a column spells a number in base 3.
TritChar(d) == CASE d = 0 -> "-" [] d = 1 -> "1" [] OTHER -> "0"

TritPattern(n) ==
    [k \in 1..GroupInputBits |-> TritChar((n \div (3 ^ (k - 1))) % 3)]

GroupInputTable(t) ==
    [c \in 1..NumColumns |-> TritPattern(11 * c * c + 5 * c + 17 * t)]

GroupOutputTable(t) ==
    [r \in 1..NumRows |->
        [c \in 1..NumColumns |-> IF (c + 3 * r + t) % 4 = 0 THEN "1" ELSE "0"]]

VARIABLES
    group_input, group_output,  \* the tables of microcode_dump
    gd_i                        \* the input i during the current cycle

gdVars == <<group_input, group_output, gd_i>>

\* mutant: the pattern is read without reversing it
Mut_ones_mask_not_reversed(pattern) == IntBase2(MarkChars(pattern, "1"))

ones_mask(pattern) == IntBase2(MarkChars(Reversed(pattern), "1"))

zeros_mask(pattern) == IntBase2(MarkChars(Reversed(pattern), "0"))

\* o_columns[col] of GroupDecode.elaborate for the input vector i
o_column(pattern, i) ==
    1 - (IF any(And(Not(i), ones_mask(pattern))) = 1
            \/ any(And(i, zeros_mask(pattern))) = 1
         THEN 1 ELSE 0)

o_columns ==
    [col \in 0..(NumColumns - 1) |->
        o_column(group_input[col + 1], SignalBits(gd_i, GroupInputBits))]

\* o_rows[group] of GroupDecode.elaborate
row(pattern) == 1 - any(And(o_columns, IntBase2(Reversed(pattern))))

o_rows == [group \in 0..(NumRows - 1) |-> row(group_output[group + 1])]

\* the bench presents an input and lets the logic settle
GroupSettle ==
    /\ gd_i' \in 0..(2 ^ GroupInputBits - 1)
    /\ UNCHANGED <<group_input, group_output>>

\* the decoder after construction; on = FALSE leaves it without tables
GroupInit(on) ==
    /\ \E t \in (IF on THEN 0..(NumTables - 1) ELSE {-1}) :
          /\ group_input = (IF on THEN GroupInputTable(t) ELSE <<>>)
          /\ group_output = (IF on THEN GroupOutputTable(t) ELSE <<>>)
    /\ gd_i = 0

(***************************************************************************)
(* microcode.py: ColumSelector, and the selector table of                  *)
(* microcode_dump.py                                                       *)
(***************************************************************************)
\* width of i_addr
AddrBits == 11

\* the pattern tables of the model tell apart this many low address bits
SelBits == 2
\* and have this many columns
NumSelColumns == 3

\* Python values: a str and a tuple of two ints.  Values of different types
\* are not equal.
PyStr(chars) == [type |-> "str", value |-> chars]
PyTuple(a, b) == [type |-> "tuple", value |-> <<a, b>>]
PyEq(a, b) == a.type = b.type /\ a.value = b.value

\* the literal "-----------" of elaborate
Universal == [k \in 1..AddrBits |-> "-"]

\* ternary patterns as elaborate expects them: strings of 0, 1 and -, here
\* with - in all but the low SelBits positions
StrPatterns ==
    {PyStr([k \in 1..AddrBits |->
               IF k <= AddrBits - SelBits THEN "-" ELSE f[k - (AddrBits - SelBits)]]) :
        f \in [1..SelBits -> {"0", "1", "-"}]}

\* entries as read_column_selector builds them: (match_zero, match_one)
TuplePatterns ==
    {PyTuple(match_zero, match_one) :
        match_zero \in 0..(2 ^ SelBits - 1), match_one \in 0..(2 ^ SelBits - 1)}

\* the tables microcode_dump.selector is drawn from
SelectorTables ==
    [1..NumSelColumns -> StrPatterns] \union [1..NumSelColumns -> TuplePatterns]

\* addresses put on i_addr
Addrs == {low + high * (2 ^ (AddrBits - 1)) :
             low \in 0..(2 ^ SelBits - 1), high \in Bit}

VARIABLES
    selector,           \* microcode_dump.selector
    sel_column,         \* elaborate: the next column of the for loop
    sel_cases,          \* elaborate: the cases of the Switch built so far
    sel_error,          \* the exception that ended elaborate, or "none"
    i_addr              \* the address during the current cycle

selVars == <<selector, sel_column, sel_cases, sel_error, i_addr>>

\* m.Case accepts a string of the width of the Switch value or an integer
CasePattern(pattern) ==
    \/ pattern.type = "int"
    \/ pattern.type = "str" /\ Len(pattern.value) = AddrBits

\* one pass of the for loop of ColumSelector.elaborate
ElaborateStep ==
    /\ sel_error = "none"
    /\ sel_column < Len(selector)
    /\ LET column == sel_column
           pattern == selector[column + 1]
       IN  IF PyEq(pattern, PyStr(Universal))
           THEN \* with m.Default(): o_column_index.eq(default), default = None
                /\ sel_error' = "TypeError"
                /\ UNCHANGED sel_cases
           ELSE IF CasePattern(pattern)
           THEN /\ sel_cases' = Append(sel_cases, [pattern |-> pattern.value,
                                                   column |-> column])
                /\ UNCHANGED sel_error
           ELSE \* m.Case rejects the pattern
                /\ sel_error' = "SyntaxError"
                /\ UNCHANGED sel_cases
    /\ sel_column' = sel_column + 1
    /\ UNCHANGED <<selector, i_addr>>

\* elaborate has returned the module
Elaborated == sel_error = "none" /\ sel_column = Len(selector)

\* a string pattern, most significant bit first, matches the address
matches(pattern, addr) ==
    \A k \in 1..AddrBits :
        \/ pattern[k] = "-"
        \/ pattern[k] = (IF (addr \div (2 ^ (AddrBits - k))) % 2 = 1 THEN "1" ELSE "0")

\* the Switch: the first case that matches drives o_column_index (Signal(7));
\* with no case matching the signal keeps its reset value 0
o_column_index ==
    LET hits == {n \in 1..Len(sel_cases) : matches(sel_cases[n].pattern, i_addr)}
    IN  IF hits = {} THEN 0
        ELSE sel_cases[CHOOSE n \in hits : \A h \in hits : n <= h].column % W7

\* the bench presents an address and lets the logic settle
SelectorSettle ==
    /\ Elaborated
    /\ i_addr' \in Addrs
    /\ UNCHANGED <<selector, sel_column, sel_cases, sel_error>>

\* the selector before elaborate; tables = {<<>>} leaves it without a table
SelectorInit(tables) ==
    /\ selector \in tables
    /\ sel_column = 0
    /\ sel_cases = <<>>
    /\ sel_error = "none"
    /\ i_addr = 0

vars == <<biuVars, loaderVars, rfVars, gdVars, selVars>>

(***************************************************************************)
(* Specifications                                                          *)
(***************************************************************************)
\* one clock edge of the BIU
Tick ==
    /\ BenchRunning /\ BIUClock /\ BIUEnv /\ BIUHist
    /\ UNCHANGED <<loaderVars, rfVars, gdVars, selVars>>

\* one clock edge of the instruction loader
LoaderTick ==
    /\ LoaderClock /\ LoaderEnv /\ LoaderHist
    /\ UNCHANGED <<biuVars, rfVars, gdVars, selVars>>

\* one clock edge of the instruction loader with i_reset and i_no_microcode low
LoaderRunTick ==
    /\ LoaderClock /\ LoaderEnvRunning /\ LoaderHist
    /\ UNCHANGED <<biuVars, rfVars, gdVars, selVars>>

\* one clock edge of the free-standing register file
RegFileTick ==
    /\ rf_ticks < MaxRegTicks
    /\ RegFileClock /\ RegFileHist /\ RegFileEnv
    /\ UNCHANGED <<biuVars, loaderVars, gdVars, selVars>>

\* one settle of the group decoder
GroupTick == GroupSettle /\ UNCHANGED <<biuVars, loaderVars, rfVars, selVars>>

\* the column selector: a pass of elaborate, or a settle of the built logic
SelectorElaborate ==
    ElaborateStep /\ UNCHANGED <<biuVars, loaderVars, rfVars, gdVars>>

SelectorTick ==
    SelectorSettle /\ UNCHANGED <<biuVars, loaderVars, rfVars, gdVars>>

\* BIU from reset, i_data and i_qbus_take driven freely
Init == BIUInit("free", ResetRegs) /\ LoaderInit({0}) /\ RegFileInit(FALSE)
    /\ GroupInit(FALSE) /\ SelectorInit({<<>>})
Next == Tick
Spec == Init /\ [][Next]_vars

\* BIU from reset against the bench memory mem[i] = i
InitBench == BIUInit("bench", ResetRegs) /\ LoaderInit({0}) /\ RegFileInit(FALSE)
    /\ GroupInit(FALSE) /\ SelectorInit({<<>>})
SpecBench == InitBench /\ [][Next]_vars

\* BIU from reset, i_data driven freely and recorded at T3, no byte taken
InitData ==
    /\ BIUInit("data", ResetRegs) /\ LoaderInit({0}) /\ RegFileInit(FALSE)
    /\ GroupInit(FALSE) /\ SelectorInit({<<>>})
SpecData == InitData /\ [][Next]_vars

\* as SpecData, and the clock never stops
SpecFill == InitData /\ [][Next]_vars /\ WF_vars(Tick)

\* as SpecBench, started with CS = 0xf000 and the odd IP = 0xfff1 in the cells
InitOddIP == BIUInit("bench", OddIPRegs) /\ LoaderInit({0}) /\ RegFileInit(FALSE)
    /\ GroupInit(FALSE) /\ SelectorInit({<<>>})
SpecOddIP == InitOddIP /\ [][Next]_vars

\* the instruction loader from reset, its inputs driven freely
InitLoader == BIUInit("off", ResetRegs) /\ LoaderInit(Bit) /\ RegFileInit(FALSE)
    /\ GroupInit(FALSE) /\ SelectorInit({<<>>})
NextLoader == LoaderTick
SpecLoader == InitLoader /\ [][NextLoader]_vars

\* the loader with i_reset and i_no_microcode low throughout, clocked forever:
\* the sync domain ticks on every clock
InitLoaderLive == InitLoader /\ i_reset = 0 /\ i_no_microcode = 0
NextLoaderLive == LoaderRunTick
SpecLoaderLive ==
    InitLoaderLive /\ [][NextLoaderLive]_vars /\ WF_vars(LoaderRunTick)

\* a BusRegFile from reset, its write port and b read port driven freely
InitRegFile == BIUInit("off", ResetRegs) /\ LoaderInit({0}) /\ RegFileInit(TRUE)
    /\ GroupInit(FALSE) /\ SelectorInit({<<>>})
NextRegFile == RegFileTick
SpecRegFile == InitRegFile /\ [][NextRegFile]_vars

\* a GroupDecode with one of the tables, its input driven freely
InitGroup ==
    /\ BIUInit("off", ResetRegs) /\ LoaderInit({0}) /\ RegFileInit(FALSE)
    /\ GroupInit(TRUE) /\ SelectorInit({<<>>})
NextGroup == GroupTick
SpecGroup == InitGroup /\ [][NextGroup]_vars

\* a ColumSelector that is elaborated with one of the tables and then driven
InitSelector ==
    /\ BIUInit("off", ResetRegs) /\ LoaderInit({0}) /\ RegFileInit(FALSE)
    /\ GroupInit(FALSE) /\ SelectorInit(SelectorTables)
NextSelector == SelectorElaborate \/ SelectorTick
SpecSelector == InitSelector /\ [][NextSelector]_vars


(***************************************************************************)
(* Properties of the Bus Interface Unit                                    *)
(***************************************************************************)

\* C1: as long as i_qbus_take is asserted only in cycles with
\* o_qbus_valid = 1, the queue byte count stays within 0..q_max.
C1_CountWithinCapacity ==
    take_legal => (0 <= q_count /\ q_count <= q_max)

\* the increment the queue count is due: 2 - q_odd at T4, else nothing
DueInc == IF T4 THEN 2 - q_odd ELSE 0

\* C2: over a refill without a take, q_count right after its T4 tick is
\* q_count right after the previous T4 tick (0 after reset) plus 2 - q_odd,
\* and no other tick of the refill changes q_count.
C2_RefillAddsTwoMinusOdd ==
    [][ /\ (T4 /\ i_qbus_take = 0 /\ count_at_T4 # -1)
            => q_count' - count_at_T4 = 2 - q_odd
        /\ (mode # Idle /\ ~T4 /\ i_qbus_take = 0)
            => q_count' = q_count ]_vars

\* the byte the bench memory holds at a physical address
MemByte(addr) == addr % W8

\* the physical address the documented reset values of CS and IP point at:
\* 0xffff0
ResetAddress == (get_default(Member(CS)) * 16 + get_default(Member(IP))) % W20

\* C3: run against the bench memory, the k-th byte the bench takes from
\* o_qbus after the fill is the memory byte at 0xffff0 + k.
C3_BenchBytesInOrder ==
    (env = "bench" /\ cycle >= FillCycles /\ i_qbus_take = 1)
        => o_qbus = MemByte(ResetAddress + TakeIndex)

\* the word-aligned physical address of CS:IP
AlignedFetchAddress ==
    LET a == (register_file[CS] * 16 + register_file[IP]) % W20
    IN  a - (a % 2)

LegalNow == take_legal /\ (i_qbus_take = 1 => o_qbus_valid = 1)

\* C5: a take on the T4 tick of a queue fetch and the T4 write both take
\* effect on that tick: q_count changes by (2 - q_odd) - 1, and both the
\* write pointer and the read pointer advance by one.  (Stated for takes
\* that meet o_qbus_valid = 1 only, the case most favourable to the claim.)
C5_TakeWhileFill ==
    [][ (T4 /\ i_qbus_take = 1 /\ LegalNow) =>
        /\ q_count' = q_count + (2 - q_odd) - 1
        /\ q_write_ptr' = (q_write_ptr + 1) % W2
        /\ q_read_ptr' = (q_read_ptr + 1) % (q_max + 1) ]_vars

\* C6: on every tick, in every mode, the next q_count is
\* q_count + inc - take, inc being 2 - q_odd on the T4 tick of a queue
\* fetch and 0 on every other tick.  (Stated for takes that meet
\* o_qbus_valid = 1 only, the case most favourable to the claim.)
C6_CountUpdate ==
    [][ LegalNow => q_count' = q_count + DueInc - i_qbus_take ]_vars

\* C7: one tick after start_mem = 1 the address bus holds the adder result
\* of that tick, the address is valid, start_mem is 0 and t_state is 1;
\* t_state then steps 2, 3, 4 and returns to 0.
C7_BusCycleTiming ==
    [][ /\ start_mem = 1 =>
            /\ o_addressbus' = adder_result
            /\ o_addressbus_valid' = 1
            /\ start_mem' = 0
            /\ t_state' = 1
        /\ t_state \in 1..3 => (t_state' = t_state + 1 /\ start_mem' = 0)
        /\ t_state = 4 => t_state' = 0 ]_vars

\* a bus cycle has been started and has run to T4 on a latched address
C7_Witness ==
    /\ t_state = 4
    /\ start_mem = 0
    /\ o_addressbus_valid = 1
    /\ o_addressbus = (ResetRegs[CS] + 1) % W16

\* C8: the address latched for a queue fetch is the 20-bit segmented sum
\* (CS << 4) + IP.
C8_SegmentedAddress ==
    [][ start_mem = 1 =>
        o_addressbus' = (register_file[CS] * 16 + register_file[IP]) % W20 ]_vars

(***************************************************************************)
(* Properties of the Instruction Loader                                    *)
(***************************************************************************)
NoPulse == o_first_clock = 0 /\ o_second_clock = 0

\* C9: a tick with i_reset = 1 leads to ExecutingMicrocode without a pulse,
\* and a tick with i_reset = 0 and i_no_microcode = 1 leads to WaitFirstByte
\* without a pulse, whatever the state and the other inputs were.
C9_ResetAndNoMicrocodePriority ==
    /\ (last.state # "none" /\ last.reset = 1)
        => (state = ExecutingMicrocode /\ NoPulse)
    /\ (last.state # "none" /\ last.reset = 0 /\ last.no_microcode = 1)
        => (state = WaitFirstByte /\ NoPulse)

\* reset and no_microcode came together with a byte on offer, from a state
\* in which the byte would otherwise have produced a pulse
C9_Witness ==
    /\ last.state = WaitSecondByte
    /\ last.reset = 1 /\ last.no_microcode = 1 /\ last.queue_ready = 1
    /\ state = ExecutingMicrocode

\* C10: while the loader waits in WaitFirstByte and no byte is offered
\* (and there is neither reset nor no_microcode) it stays there without a
\* pulse; the tick on which queue_ready is 1 raises first_clock and leads
\* to WaitSecondByte.
C10_WaitForFirstByte ==
    /\ (last.state = WaitFirstByte /\ last.queue_ready = 0
            /\ last.single_byte = 0 /\ last.reset = 0 /\ last.no_microcode = 0)
        => (state = WaitFirstByte /\ NoPulse)
    /\ (last.state = WaitFirstByte /\ last.queue_ready = 1
            /\ last.reset = 0 /\ last.no_microcode = 0)
        => (state = WaitSecondByte /\ o_first_clock = 1 /\ o_second_clock = 0)

\* the loader waited MaxStall ticks or more, then a byte came
C10_Witness ==
    /\ stalled[2] = MaxStall
    /\ last.state = WaitFirstByte /\ last.queue_ready = 1
    /\ last.reset = 0 /\ last.no_microcode = 0
    /\ state = WaitSecondByte /\ o_first_clock = 1

\* C11: the NX path, with i_reset and i_no_microcode low.  A tick in
\* ExecutingMicrocode with i_nxt = 1, i_rni = 0 and i_queue_ready = 1 raises
\* o_first_clock and leaves the loader in Prefetch; a tick in Prefetch with
\* i_rni = 1, i_queue_ready = 0 and i_single_byte = 0 leaves it in
\* WaitSecondByte with neither pulse raised.
C11_NxPath ==
    /\ (/\ last.state = ExecutingMicrocode
        /\ last.nxt = 1 /\ last.rni = 0 /\ last.queue_ready = 1
        /\ last.reset = 0 /\ last.no_microcode = 0)
       => (state = Prefetch /\ o_first_clock = 1)
    /\ (/\ last.state = Prefetch
        /\ last.rni = 1 /\ last.queue_ready = 0 /\ last.single_byte = 0
        /\ last.reset = 0 /\ last.no_microcode = 0)
       => (state = WaitSecondByte /\ NoPulse)

\* the loader has just come back from Prefetch to WaitSecondByte on i_rni
\* with no byte in the queue
C11_Witness ==
    /\ last.state = Prefetch
    /\ last.rni = 1 /\ last.queue_ready = 0 /\ last.single_byte = 0
    /\ last.reset = 0 /\ last.no_microcode = 0
    /\ state = WaitSecondByte /\ NoPulse

\* C12: o_first_clock and o_second_clock are never high in the same tick,
\* so a second pulse comes at least one tick after the first pulse before it.
C12_PulsesExclusive == ~(o_first_clock = 1 /\ o_second_clock = 1)

\* the second pulse, raised from Prefetch, with the first pulse low
C12_Witness ==
    /\ last.state = Prefetch /\ last.queue_ready = 1
    /\ o_second_clock = 1 /\ o_first_clock = 0

\* C13: neither pulse is high on two consecutive ticks, whatever the inputs.
C13_SingleCyclePulses ==
    [][ /\ (o_first_clock = 1 => o_first_clock' = 0)
        /\ (o_second_clock = 1 => o_second_clock' = 0) ]_vars

\* the second pulse is high, and the inputs that raised it are still held
C13_Witness ==
    /\ last.state = WaitSecondByte
    /\ last.queue_ready = 1 /\ i_queue_ready = 1
    /\ last.single_byte = 1 /\ i_single_byte = 1
    /\ o_second_clock = 1

(***************************************************************************)
(* Properties of the bus register file                                     *)
(***************************************************************************)

\* C14: after construction the cell IP holds 0xfff0, the cell CS holds
\* 0xf000 and every other cell holds 0xcccc.
C14_ResetValues ==
    rf_ticks = 0 =>
        \A r \in DOMAIN rf_register_file :
            rf_register_file[r] = (CASE r = IP -> 65520
                                     [] r = CS -> 61440
                                     [] OTHER  -> 52428)

\* C15: a tick that writes the word d to a non-queue cell r stores d in r and
\* changes no other cell, and when the next tick presents r on the b read
\* selector, o_b_bus holds d after that tick.
C15_WriteThenRead ==
    [][ /\ (rf_i_write_en = 1 /\ rf_i_write \in NonQueueRegs) =>
              /\ rf_register_file'[rf_i_write] = rf_i_write_data
              /\ \A c \in DOMAIN rf_register_file :
                    c # rf_i_write => rf_register_file'[c] = rf_register_file[c]
        /\ (/\ rf_last.write_en = 1 /\ rf_last.write \in NonQueueRegs
            /\ rf_i_b_read = rf_last.write) =>
              rf_o_b_bus' = rf_last.write_data ]_vars

\* o_b_bus shows a word that was written to IND and then read back from it
C15_Witness ==
    /\ rf_ticks = 2
    /\ rf_last.write_en = 0
    /\ rf_register_file[IND] \in DataVals
    /\ rf_register_file[IND] # ResetRegs[IND]
    /\ rf_o_b_bus = rf_register_file[IND]

\* C16: a tick with the "no register" selector None_ on the write port,
\* whatever i_write_en is, changes no cell; and no cell changes because None_
\* is on the b read selector.
C16_NoneSelectsNothing ==
    [][ /\ rf_i_write = Sel3(None_) => rf_register_file' = rf_register_file
        /\ (rf_i_b_read = Sel3(None_) /\ rf_i_write_en = 0) =>
              rf_register_file' = rf_register_file ]_vars

\* C17: for a queue byte index i in 0..5 the q read port returns a whole byte,
\* the high or the low one, of the queue cell Queue + (i div 2).
C17_QueueReadPort ==
    i_q_read \in 0..5 =>
        LET cell == register_file[Queue + (i_q_read \div 2)]
        IN  o_qbus = Mux(i_q_read % 2, cell % W8, cell \div W8)

\* C20: the word a fetch stores into the queue is the word that was on
\* i_data during T3 of that bus cycle, whatever i_data does afterwards.
C20_StoresDataOfT3 ==
    [][ (QueueWrite /\ data_at_T3 # -1) =>
            register_file'[i_write] = data_at_T3 ]_vars

(***************************************************************************)
(* Properties of the decode PLAs                                           *)
(***************************************************************************)
\* the entry is the universal pattern, in either form of the table
IsUniversal(entry) ==
    \/ entry.type = "str" /\ entry.value = Universal
    \/ entry.type = "tuple" /\ entry.value = <<0, 0>>

\* the entry matches the address: no must-be-0 bit is 1, no must-be-1 bit is 0
EntryMatches(entry, addr) ==
    IF entry.type = "str" THEN matches(entry.value, addr)
    ELSE \A k \in 0..(AddrBits - 1) :
            LET bit == (addr \div (2 ^ k)) % 2
            IN  /\ (entry.value[1] \div (2 ^ k)) % 2 = 1 => bit = 0
                /\ (entry.value[2] \div (2 ^ k)) % 2 = 1 => bit = 1

\* C18: the column selector yields a column index for every address, for a
\* table that holds the universal pattern as well: the index of a specific
\* (not universal) pattern that matches the address, and the index of the
\* column of the universal pattern when no specific pattern matches.
C18_ColumnSelector ==
    /\ sel_error = "none"
    /\ (selector # <<>> /\ Elaborated) =>
          LET columns == 0..(Len(selector) - 1)
              specific == {c \in columns : /\ ~IsUniversal(selector[c + 1])
                                           /\ EntryMatches(selector[c + 1], i_addr)}
              universal == {c \in columns : IsUniversal(selector[c + 1])}
          IN  IF specific # {} THEN o_column_index \in specific
              ELSE universal # {} => o_column_index \in universal

\* bit k of the input of the group decoder
InputBit(k) == (gd_i \div (2 ^ k)) % 2

\* C19: the outputs of the group decoder are a function of its input alone.
\* Column c is asserted iff the input has a 1 at every position where
\* pattern c has 1 and a 0 at every position where it has 0; row r is
\* asserted iff no column selected by the mask of row r is asserted.
C19_GroupDecode ==
    group_input # <<>> =>
        /\ \A c \in 0..(NumColumns - 1) :
              o_columns[c] = 1 <=>
                 \A k \in 0..(GroupInputBits - 1) :
                    /\ group_input[c + 1][k + 1] = "1" => InputBit(k) = 1
                    /\ group_input[c + 1][k + 1] = "0" => InputBit(k) = 0
        /\ \A r \in 0..(NumRows - 1) :
              o_rows[r] = 1 <=>
                 \A c \in 0..(NumColumns - 1) :
                    group_output[r + 1][c + 1] = "1" => o_columns[c] = 0

\* an input that asserts a column, with a row pulled low by it and another
\* row left asserted
C19_Witness ==
    /\ group_input # <<>>
    /\ gd_i # 0
    /\ \E c \in 0..(NumColumns - 1) : o_columns[c] = 1
    /\ \E r \in 0..(NumRows - 1) : o_rows[r] = 0
    /\ \E r \in 0..(NumRows - 1) : o_rows[r] = 1

(***************************************************************************)
(* Further properties of the Bus Interface Unit                            *)
(***************************************************************************)
\* the cycle in which the register file takes the IP write-back: the write
\* enable and selector registered in QueueFetchIPInc are in effect
IPWriteBack == i_write_en = 1 /\ i_write = Sel3(IP) /\ c_bus_src = 0

\* C21: the write-back of a refill stores the old IP plus the C value of
\* QueueFetchIPInc (1 for an even IP, 2 for an odd one), modulo 2^16.
C21_IPAdvances ==
    [][ IPWriteBack =>
            register_file'[IP] =
                (register_file[IP]
                    + (IF register_file[IP] % 2 = 0 THEN 1 ELSE 2)) % W16 ]_vars

\* C22: the write that completes a queue fetch goes to one of the queue
\* cells 7, 8, 9, and no tick of the BIU changes CS, DS, SS, ES, IND or OPR.
C22_FetchWritesQueueCellsOnly ==
    [][ /\ QueueWrite => i_write \in {Queue0, Queue1, Queue2}
        /\ \A r \in {CS, DS, SS, ES, IND, OPR} :
              register_file'[r] = register_file[r] ]_vars

\* C23: with i_qbus_take never asserted the BIU comes to rest: from some
\* tick on it is in Idle for good with q_count fixed at q_max - 1 or q_max.
C23_FillsAndStops ==
    \E n \in {q_max - 1, q_max} : <>[](mode = Idle /\ q_count = n)

\* C24: a fetched word is not written over a queue word whose bytes have not
\* been delivered; with no byte taken at all, a fetched word does not go to
\* the cell the word before it went to.
C24_FetchKeepsUndeliveredWord ==
    [][ (QueueWrite /\ last_fetch_cell # -1) =>
            i_write # last_fetch_cell ]_vars

\* C25: the read pointer stays below q_max, one of the byte positions of the
\* queue, and it moves only on a tick with i_qbus_take = 1 (stated for runs
\* in which every take met o_qbus_valid = 1).
C25_ReadPtrInQueue ==
    [][ LegalNow =>
            /\ q_read_ptr' < q_max
            /\ i_qbus_take = 0 => q_read_ptr' = q_read_ptr ]_vars

\* C26: bus cycles do not overlap: start_mem = 1 only with t_state = 0,
\* t_state is one of 0..4, and the mode is QueueFetch whenever t_state # 0.
C26_BusCyclesDisjoint ==
    /\ start_mem = 1 => t_state = 0
    /\ t_state \in 0..4
    /\ t_state # 0 => mode = QueueFetch

\* the second bus cycle is under way, right after the first one
C26_Witness ==
    /\ t_state = 3 /\ mode = QueueFetch /\ start_mem = 0
    /\ q_write_ptr = 1

(***************************************************************************)
(* Further properties of the instruction loader                            *)
(***************************************************************************)

\* C27: the pulses alternate.  A second pulse is raised only from
\* WaitSecondByte or Prefetch and the pulse before it is a first pulse; and a
\* first pulse that follows a first pulse with no second pulse between them
\* has a tick with i_reset or i_no_microcode between them.
C27_PulsesAlternate ==
    [][ /\ o_second_clock' = 1 =>
              /\ state \in {WaitSecondByte, Prefetch}
              /\ pulses[1] = "first"
        /\ (o_first_clock' = 1 /\ pulses[1] = "first") => ~clean ]_vars

\* a first pulse, after a second pulse, after a first pulse
C27_Witness ==
    /\ o_first_clock = 1
    /\ pulses = <<"first", "second">>
    /\ last.state = ExecutingMicrocode

\* the tick changes neither the state nor raises a pulse
Holds ==
    /\ state' = state
    /\ o_first_clock' = 0
    /\ o_second_clock' = 0

\* C28, as stated, with "the queue not ready" read as i_queue_ready = 0: on a
\* tick with i_reset = i_no_microcode = 0 and either ExecutingMicrocode with
\* i_rni = 0 and (i_nxt = 0 or i_queue_ready = 0), or WaitFirstByte or
\* WaitSecondByte with i_queue_ready = i_single_byte = 0, or Prefetch with
\* i_queue_ready = i_single_byte = 0 and i_rni = 0, the state is unchanged and
\* no pulse is raised.
C28_Original ==
    [][ ( /\ i_reset = 0
          /\ i_no_microcode = 0
          /\ \/ /\ state = ExecutingMicrocode
                /\ i_rni = 0
                /\ (i_nxt = 0 \/ i_queue_ready = 0)
             \/ /\ state \in {WaitFirstByte, WaitSecondByte}
                /\ ~queue_or_single
             \/ /\ state = Prefetch
                /\ ~queue_or_single
                /\ i_rni = 0 )
        => Holds ]_vars

\* C28, amended: the same, where ExecutingMicrocode with i_rni = 0 holds when
\* i_nxt = 0 or i_queue_ready = i_single_byte = 0.  These are exactly the
\* ticks that no row of the transition table covers; an i_nxt strobe with
\* i_queue_ready = i_single_byte = 0 is dropped.
C28_UncoveredTicksHold ==
    [][ ( /\ i_reset = 0
          /\ i_no_microcode = 0
          /\ \/ /\ state = ExecutingMicrocode
                /\ i_rni = 0
                /\ (i_nxt = 0 \/ ~queue_or_single)
             \/ /\ state \in {WaitFirstByte, WaitSecondByte}
                /\ ~queue_or_single
             \/ /\ state = Prefetch
                /\ ~queue_or_single
                /\ i_rni = 0 )
        => Holds ]_vars

\* an i_nxt strobe was dropped: ExecutingMicrocode, no byte, i_nxt alone
C28_Witness ==
    /\ last.state = ExecutingMicrocode
    /\ last.reset = 0 /\ last.no_microcode = 0
    /\ last.queue_ready = 0 /\ last.single_byte = 0
    /\ last.nxt = 1 /\ last.rni = 0
    /\ state = ExecutingMicrocode
    /\ o_first_clock = 0 /\ o_second_clock = 0
    /\ pulses[1] = "second"

\* the loader waits for a byte
Waiting == state \in {WaitFirstByte, WaitSecondByte, Prefetch}

\* i_reset and i_no_microcode are low throughout
NoResetEver == [](i_reset = 0 /\ i_no_microcode = 0)

\* the loader never waits forever without a tick on which the queue is ready
QueueReadyWhileWaiting == []<>(~Waiting \/ i_queue_ready = 1)

\* no stay in ExecutingMicrocode lasts forever without a tick on which the
\* queue is ready and i_rni is high
RniWhileExecuting ==
    []<>(state # ExecutingMicrocode \/ (i_queue_ready = 1 /\ i_rni = 1))

\* C29: the loader cannot get stuck.  With i_reset = i_no_microcode = 0
\* throughout, the queue ready infinitely often while the loader waits, and
\* i_rni high on a tick with the queue ready in every stay in
\* ExecutingMicrocode, the first pulse is raised infinitely often and every
\* first pulse is eventually followed by a second pulse.
C29_LoaderNeverStuck ==
    (NoResetEver /\ QueueReadyWhileWaiting /\ RniWhileExecuting)
        => /\ []<>(o_first_clock = 1)
           /\ [](o_first_clock = 1 => <>(o_second_clock = 1))

\* the second pulse that follows a first pulse raised from ExecutingMicrocode
\* on i_rni, with no reset or no_microcode since
C29_Witness ==
    /\ o_second_clock = 1
    /\ pulses = <<"second", "first">>
    /\ clean
    /\ last.state = WaitSecondByte
    /\ last.queue_ready = 1
    /\ stalled = <<0, 0>>

====
